---------------------------- MODULE Spec2Model ----------------------------
(***************************************************************************)
(* Blinkogram: the Telegram -> Blinko bridge.                              *)
(*                                                                         *)
(*   - formatContent (the entity reformatter), modelled on sequences of    *)
(*     code points with the UTF-16 transcoding the code performs;          *)
(*   - Service.handler / handleMemoCreation / the media-group cache, as    *)
(*     concurrent handler goroutines sharing a mutex, the cache, the       *)
(*     client's token and the clock;                                       *)
(*   - the command and callback handlers and their remote-API failures.    *)
(*                                                                         *)
(* Strings are sequences of Unicode code points (naturals).                *)
(***************************************************************************)
EXTENDS Naturals, Integers, Sequences, FiniteSets, TLC

(***************************************************************************)
(* Bounds of the model.                                                    *)
(***************************************************************************)
\* longest input text, in code points
MaxLen == 3
\* longest annotation list
MaxEnt == 2
\* largest input of formatContent: characters plus twice the annotations
MaxInput == 7

(***************************************************************************)
(* Characters.                                                             *)
(***************************************************************************)
\* 'a'
ChLetter == 97
\* ' '
ChSpace == 32
\* '\n'
ChNewline == 10
\* U+1F600, outside the Basic Multilingual Plane: two UTF-16 code units
ChEmoji == 128512
\* 'u', the only character of a link target
ChTarget == 117
\* '*', '[', ']', '(', ')'
ChStar == 42
ChLBracket == 91
ChRBracket == 93
ChLParen == 40
ChRParen == 41
\* U+FFFD, what utf16.Encode / utf16.Decode put for an invalid unit
ReplacementChar == 65533

Alphabet == {ChLetter, ChSpace, ChNewline, ChEmoji}

RECURSIVE SeqsUpTo(_, _)
SeqsUpTo(S, n) ==
  IF n = 0 THEN {<<>>}
  ELSE LET shorter == SeqsUpTo(S, n - 1)
       IN  shorter \cup {Append(s, x) : s \in {t \in shorter : Len(t) = n - 1}, x \in S}

Texts == SeqsUpTo(Alphabet, MaxLen)

(***************************************************************************)
(* unicode/utf16: Encode and Decode.                                       *)
(***************************************************************************)
Surr1 == 55296
Surr2 == 56320
Surr3 == 57344
SurrSelf == 65536

IsSurrogate(r) == Surr1 <= r /\ r < Surr3

\* utf16.Encode of one rune
EncodeRune(r) ==
  IF IsSurrogate(r) THEN <<ReplacementChar>>
  ELSE IF r < SurrSelf THEN <<r>>
  ELSE <<Surr1 + ((r - SurrSelf) \div 1024), Surr2 + ((r - SurrSelf) % 1024)>>

RECURSIVE Encode(_)
Encode(s) == IF s = <<>> THEN <<>> ELSE EncodeRune(Head(s)) \o Encode(Tail(s))

RECURSIVE Decode(_)
Decode(u) ==
  IF u = <<>> THEN <<>>
  ELSE IF Surr1 <= u[1] /\ u[1] < Surr2 /\ Len(u) >= 2 /\ Surr2 <= u[2] /\ u[2] < Surr3
       THEN <<((u[1] - Surr1) * 1024 + (u[2] - Surr2)) + SurrSelf>> \o Decode(Tail(Tail(u)))
  ELSE IF IsSurrogate(u[1]) THEN <<ReplacementChar>> \o Decode(Tail(u))
  ELSE <<u[1]>> \o Decode(Tail(u))

\* contentRunes[a:b], 0-based half-open; SliceOK is Go's bounds check
SliceOK(u, a, b) == 0 <= a /\ a <= b /\ b <= Len(u)
Slice(u, a, b) == SubSeq(u, a + 1, b)

(***************************************************************************)
(* strings.TrimSpace, and the decomposition pattern of formatContent.     *)
(***************************************************************************)
\* \s of Go's regexp: [\t\n\f\r ]
IsReSpace(c) == c \in {9, 10, 12, 13, 32}
\* unicode.IsSpace, for the characters of the model
IsSpace(c) == c \in {9, 10, 11, 12, 13, 32, 133, 160}

AllSpace(s) == \A i \in 1..Len(s) : IsSpace(s[i])
AllReSpace(s) == \A i \in 1..Len(s) : IsReSpace(s[i])

\* strings.TrimSpace(s) == ""
TrimSpaceEmpty(s) == AllSpace(s)

\* length of the longest prefix of s made of \s characters (isWs) or of
\* characters that '.' matches (every character but '\n')
RECURSIVE PrefixLen(_, _)
PrefixLen(s, isWs) ==
  IF s = <<>> THEN 0
  ELSE IF (isWs /\ IsReSpace(Head(s))) \/ (~isWs /\ Head(s) # ChNewline)
       THEN 1 + PrefixLen(Tail(s), isWs)
       ELSE 0

NoMatch == [ok |-> FALSE, m1 |-> <<>>, m2 |-> <<>>, m3 |-> <<>>]

\* re.FindStringSubmatch(s) for the pattern of line 516: leftmost-first matching.
\* Group 1 is greedy over whitespace, group 2 is greedy over every
\* character but '\n', group 3 takes what is left, which must be whitespace.
\* Shortening group 1 or group 2 never turns a failing match into a
\* succeeding one (the characters given back are matched by the same
\* groups or hit the same obstacle), so the first attempt decides.
FindStringSubmatch(s) ==
  LET n1   == PrefixLen(s, TRUE)
      rest == SubSeq(s, n1 + 1, Len(s))
      n2   == PrefixLen(rest, FALSE)
      tl   == SubSeq(rest, n2 + 1, Len(rest))
  IN  IF AllReSpace(tl)
      THEN [ok |-> TRUE, m1 |-> SubSeq(s, 1, n1), m2 |-> SubSeq(rest, 1, n2), m3 |-> tl]
      ELSE NoMatch

(***************************************************************************)
(* formatContent                                                           *)
(***************************************************************************)
TypeURL == "url"
TypeTextLink == "text_link"
TypeBold == "bold"
TypeItalic == "italic"
\* a kind formatContent does not rewrite
TypeCode == "code"

SupportedTypes == {TypeURL, TypeTextLink, TypeBold, TypeItalic}
EntityTypes == SupportedTypes \cup {TypeCode}

\* models.MessageEntity: Type, Offset and Length in UTF-16 code units, URL
Entity(t, off, len) ==
  [Type |-> t, Offset |-> off, Length |-> len,
   URL |-> IF t = TypeTextLink THEN <<ChTarget>> ELSE <<>>]

\* the switch of lines 519-526: the kinds that are not skipped
IsSupported(e) == e.Type \in SupportedTypes

\* line 528: the annotation starts at or after the end of the previous one
Applies(e, prevOffset, prevLength) == e.Offset >= prevOffset + prevLength

\* fmt.Sprintf of lines 541-547 on the three submatches
Sprintf(e, m) ==
  CASE e.Type = TypeURL ->
         m.m1 \o <<ChLBracket>> \o m.m2 \o <<ChRBracket, ChLParen>> \o m.m2 \o <<ChRParen>> \o m.m3
    [] e.Type = TypeTextLink ->
         m.m1 \o <<ChLBracket>> \o m.m2 \o <<ChRBracket, ChLParen>> \o e.URL \o <<ChRParen>> \o m.m3
    [] e.Type = TypeBold ->
         m.m1 \o <<ChStar, ChStar>> \o m.m2 \o <<ChStar, ChStar>> \o m.m3
    [] e.Type = TypeItalic ->
         m.m1 \o <<ChStar>> \o m.m2 \o <<ChStar>> \o m.m3

\* the state of the loop: the builder, prevEntity, entityContent, and
\* whether the goroutine has panicked (matches[1] on a nil slice, or a
\* slice out of range)
LoopInit ==
  [sb |-> <<>>, prevOffset |-> 0, prevLength |-> 0, entityContent |-> <<>>, panic |-> FALSE]

\* lines 538-548: matches := re.FindStringSubmatch(entityContent), and the
\* markup of the annotation's kind around the second submatch
Markup(st, e) ==
  LET m == FindStringSubmatch(st.entityContent)
  IN  IF ~m.ok THEN [st EXCEPT !.panic = TRUE]
      ELSE [st EXCEPT !.entityContent = Sprintf(e, m)]

\* the loop skipping the markup of an annotation of another kind, but only
\* after the cursor has moved to it
LoopStepAdvancing(units, st, e) ==
  IF st.panic THEN st
  ELSE IF Applies(e, st.prevOffset, st.prevLength)
  THEN LET prevEnd == st.prevOffset + st.prevLength
       IN  IF ~SliceOK(units, prevEnd, e.Offset)
              \/ ~SliceOK(units, e.Offset, e.Offset + e.Length)
           THEN [st EXCEPT !.panic = TRUE]
           ELSE LET raw == Decode(Slice(units, e.Offset, e.Offset + e.Length))
                    st1 == [sb |-> st.sb \o st.entityContent
                                     \o Decode(Slice(units, prevEnd, e.Offset)),
                            prevOffset |-> e.Offset,
                            prevLength |-> e.Length,
                            entityContent |-> raw,
                            panic |-> FALSE]
                IN  IF TrimSpaceEmpty(raw) \/ ~IsSupported(e) THEN st1 ELSE Markup(st1, e)
  ELSE IF ~IsSupported(e) THEN st ELSE Markup(st, e)

\* one iteration of the loop of lines 518-549
LoopStep(units, st, e) ==
  IF st.panic \/ ~IsSupported(e) THEN st
  ELSE IF Applies(e, st.prevOffset, st.prevLength)
  THEN LET prevEnd == st.prevOffset + st.prevLength
       IN  IF ~SliceOK(units, prevEnd, e.Offset)
              \/ ~SliceOK(units, e.Offset, e.Offset + e.Length)
           THEN [st EXCEPT !.panic = TRUE]
           ELSE LET raw == Decode(Slice(units, e.Offset, e.Offset + e.Length))
                    st1 == [sb |-> st.sb \o st.entityContent
                                     \o Decode(Slice(units, prevEnd, e.Offset)),
                            prevOffset |-> e.Offset,
                            prevLength |-> e.Length,
                            entityContent |-> raw,
                            panic |-> FALSE]
                IN  IF TrimSpaceEmpty(raw) THEN st1 ELSE Markup(st1, e)
  ELSE Markup(st, e)

RECURSIVE Loop(_, _, _)
Loop(units, st, es) ==
  IF es = <<>> THEN st ELSE Loop(units, LoopStep(units, st, Head(es)), Tail(es))

Panicked == [panic |-> TRUE, out |-> <<>>]

\* formatContent without the text after the last annotation
formatContentNoTail(text, es) ==
  LET units == Encode(text)
      st    == Loop(units, LoopInit, es)
  IN  IF st.panic THEN Panicked
      ELSE [panic |-> FALSE, out |-> st.sb \o st.entityContent]

\* formatContent(content, contentEntities): the string returned, or a panic
formatContent(text, es) ==
  LET units == Encode(text)
      st    == Loop(units, LoopInit, es)
      prevEnd == st.prevOffset + st.prevLength
  IN  IF st.panic \/ ~SliceOK(units, prevEnd, Len(units)) THEN Panicked
      ELSE [panic |-> FALSE,
            out |-> st.sb \o st.entityContent \o Decode(Slice(units, prevEnd, Len(units)))]

(***************************************************************************)
(* The inputs of formatContent: every text over the alphabet and every     *)
(* list of annotations whose ranges lie inside the text and start and end  *)
(* at a character (Telegram never splits a surrogate pair).                *)
(***************************************************************************)
Boundaries(text) == {Len(Encode(SubSeq(text, 1, k))) : k \in 0..Len(text)}

EntitiesOf(text) ==
  LET B == Boundaries(text)
  IN  {Entity(t, r[1], r[2] - r[1]) :
         t \in EntityTypes, r \in {p \in B \X B : p[1] < p[2]}}

EntityLists(text) ==
  {es \in SeqsUpTo(EntitiesOf(text), MaxEnt) : Len(text) + 2 * Len(es) <= MaxInput}

\* no annotation, or one
ShortEntityLists(text) == {<<>>} \cup {<<e>> : e \in EntitiesOf(text)}

(***************************************************************************)
(* The service: updates, the access-token store, the client, the remote    *)
(* note API, the media-group cache.                                        *)
(***************************************************************************)
\* handler goroutines running at once
MaxHandlers == 2
\* updates delivered in one run
MaxUpdates == 2
\* the clock stops here
MaxTime == 3
\* the time to live of a media-group entry, 24*time.Hour, in units of 12 hours
TTL == 2

Handlers == 1..MaxHandlers

Users == {"u1", "u2", "u3"}
NoToken == ""
ValidTokens == {"t1", "t2"}
\* the tokens /start is given: a token the remote API accepts, and one it rejects
StartTokens == {"t2", "bad"}

NoGroup == ""
Groups == {"g1", "g2"}

\* 'F' stands for the literal "Forwarded from ", 'o' for the origin's name
ChForwarded == 70
ChOrigin == 111

\* message.ForwardOrigin: nil, an origin with a username, one without
ForwardNone == "none"
ForwardNamed == "named"
ForwardHidden == "hidden"
Forwards == {ForwardNone, ForwardNamed, ForwardHidden}

\* models.Update: a message (Cmd says whether Text starts with "/start " or
\* "/search ", Arg is the rest of it) or a callback query (Data, split at
\* the spaces)
Update(kind, from, cmd, arg, text, ents, cap, capEnts, fwd, group, file, data) ==
  [Kind |-> kind, From |-> from, Cmd |-> cmd, Arg |-> arg, Text |-> text,
   Entities |-> ents, Caption |-> cap, CaptionEntities |-> capEnts,
   Forward |-> fwd, MediaGroupID |-> group, File |-> file, Data |-> data]

NoUpdate ==
  Update("none", "u1", "", "", <<>>, <<>>, <<>>, <<>>, ForwardNone, NoGroup, FALSE, <<>>)

\* a message to be saved as a note
Note(from, text, ents, cap, capEnts, fwd, group, file) ==
  Update("message", from, "", "", text, ents, cap, capEnts, fwd, group, file, <<>>)

\* lines 201-205: "Forwarded from [name](https://t.me/username)\n" or
\* "Forwarded from name\n"; nothing when the message is not a forward
ForwardLine(fwd) ==
  CASE fwd = ForwardNone -> <<>>
    [] fwd = ForwardNamed ->
         <<ChForwarded, ChLBracket, ChOrigin, ChRBracket, ChLParen, ChTarget, ChRParen, ChNewline>>
    [] fwd = ForwardHidden -> <<ChForwarded, ChOrigin, ChNewline>>

\* lines 161-206: the content of the note, from the text or the caption,
\* reformatted when there are annotations, with the forward line in front
handlerContent(m) ==
  LET raw  == IF m.Caption # <<>> THEN m.Caption ELSE m.Text
      ents == IF m.Caption # <<>> THEN m.CaptionEntities ELSE m.Entities
      c    == IF Len(ents) > 0 THEN formatContent(raw, ents)
              ELSE [panic |-> FALSE, out |-> raw]
  IN  IF c.panic THEN c ELSE [c EXCEPT !.out = ForwardLine(m.Forward) \o c.out]

\* the replies and callback answers
ReplyStartFirst == "Please start the bot with /start <access_token>"
ReplyInputContent == "Please input memo content"
ReplyCreateFailed == "Failed to create memo"
ReplySaved == "Content saved as Private"
ReplyInvalidToken == "Invalid access token"
ReplyHello == "Hello"
ReplyNoMemos == "No memos found for the specified search criteria."
ReplySearchResult == "[id] content"
ReplyFileError == "Error: failed to get or save the file"
AnswerInvalidCommand == "Invalid command"
AnswerInvalidID == "Invalid memo ID"
AnswerNotFound == "Memo not found"
AnswerUnknownAction == "Unknown action"
AnswerUpdateFailed == "Failed to update memo"
AnswerUpdated == "Memo updated"

\* the replies that tell the chat of a failure
FailureReplies ==
  {ReplyCreateFailed, ReplyInvalidToken, ReplyFileError, AnswerNotFound, AnswerUpdateFailed}

\* one call of the remote note API: which, with which bearer token, and
\* whether it succeeded
Call(api, token, ok) == [api |-> api, token |-> token, ok |-> ok]

(***************************************************************************)
(* The media-group cache (Cache: NewCache, get, set, startGC).             *)
(***************************************************************************)
NoEntry == [present |-> FALSE, value |-> 0, expiresAt |-> 0]
EmptyCache == [k \in Groups |-> NoEntry]

\* a cache whose entries never expire
NeverExpired(entry, t) == FALSE

\* the expiry of an entry has passed at time t
Expired(entry, t) == t > entry.expiresAt

\* get(key) at time t
CacheGet(c, k, t) ==
  IF c[k].present /\ ~Expired(c[k], t)
  THEN [found |-> TRUE, value |-> c[k].value]
  ELSE [found |-> FALSE, value |-> 0]

\* the cache after get(key) at time t: an expired entry is deleted by the lookup
CacheAfterGet(c, k, t) ==
  IF c[k].present /\ Expired(c[k], t) THEN [c EXCEPT ![k] = NoEntry] ELSE c

\* set(key, value, ttl) at time t
CacheSet(c, k, v, ttl, t) ==
  [c EXCEPT ![k] = [present |-> TRUE, value |-> v, expiresAt |-> t + ttl]]

\* a sweep that evicts every entry
CacheSweepAll(c, t) == EmptyCache

\* one run of the background sweep at time t
CacheSweep(c, t) ==
  [k \in Groups |-> IF c[k].present /\ Expired(c[k], t) THEN NoEntry ELSE c[k]]

VARIABLES
  content,          \* formatContent's argument content
  contentEntities,  \* formatContent's argument contentEntities
  fmtOut,           \* what the call returned
  fmtPc,            \* "call" before the call, "ret" after it
  pc,               \* where each handler goroutine is
  update,           \* the update each handler was called with
  hContent,         \* handler's local content
  memo,             \* handler's local memo (its id; 0 is BlinkoItem{})
  err,              \* whether handleMemoCreation returned an error
  sent,             \* the replies and callback answers each handler has sent
  calls,            \* the remote API calls each handler has made for its update
  mutex,            \* Service.mutex: 0, or the handler that holds it
  cache,            \* Service.cache
  now,              \* the clock
  clientToken,      \* BlinkoClient.token
  store,            \* the access-token store
  nextID,           \* the id the remote API gives to the next note it creates
  pending,          \* updates not yet delivered
  nCreate,          \* history: create-note calls issued, per media group
  nFail,            \* history: create-note calls that failed, per media group
  lastCreate,       \* history: how the latest create-note call of a group ended
  lapsed,           \* history: an entry of the group has been seen to expire
  lastSet,          \* history: the latest set of each key
  lastGet           \* history: the latest get

fmtVars == <<content, contentEntities, fmtOut, fmtPc>>
handlerVars == <<pc, update, hContent, memo, err, sent, calls>>
sharedVars == <<mutex, cache, now, clientToken, store, nextID, pending>>
historyVars == <<nCreate, nFail, lastCreate, lapsed, lastSet, lastGet>>
svcVars == <<handlerVars, sharedVars, historyVars>>

vars == <<fmtVars, svcVars>>

NoContent == [panic |-> FALSE, out |-> <<>>]
NoSet == [set |-> FALSE, value |-> 0, at |-> 0, ttl |-> 0]
NoGet == [got |-> FALSE, key |-> "g1", found |-> FALSE, value |-> 0, at |-> 0, since |-> NoSet]
AllGroups == Groups \cup {NoGroup}

\* NewService: nothing cached, the mutex free, no handler running; two
\* senders have registered their tokens, the third has not
SvcInit ==
  /\ pc = [h \in Handlers |-> "idle"]
  /\ update = [h \in Handlers |-> NoUpdate]
  /\ hContent = [h \in Handlers |-> NoContent]
  /\ memo = [h \in Handlers |-> 0]
  /\ err = [h \in Handlers |-> FALSE]
  /\ sent = [h \in Handlers |-> {}]
  /\ calls = [h \in Handlers |-> <<>>]
  /\ mutex = 0
  /\ cache = EmptyCache
  /\ now = 0
  /\ clientToken = NoToken
  /\ store = [u \in Users |-> CASE u = "u1" -> "t1" [] u = "u2" -> "t2" [] OTHER -> NoToken]
  /\ nextID = 1
  /\ pending = MaxUpdates
  /\ nCreate = [g \in AllGroups |-> 0]
  /\ nFail = [g \in AllGroups |-> 0]
  /\ lastCreate = [g \in AllGroups |-> "none"]
  /\ lapsed = [g \in Groups |-> FALSE]
  /\ lastSet = [k \in Groups |-> NoSet]
  /\ lastGet = NoGet

FmtIdle ==
  /\ content = <<>>
  /\ contentEntities = <<>>
  /\ fmtOut = NoContent
  /\ fmtPc = "call"

FmtInit ==
  /\ content \in Texts
  /\ contentEntities \in EntityLists(content)
  /\ fmtOut = NoContent
  /\ fmtPc = "call"
  /\ SvcInit

\* the call of formatContent
FormatContent ==
  /\ fmtPc = "call"
  /\ fmtOut' = formatContent(content, contentEntities)
  /\ fmtPc' = "ret"
  /\ UNCHANGED <<content, contentEntities, svcVars>>

FmtNext == FormatContent

SpecFmt == FmtInit /\ [][FmtNext]_vars

\* a text that starts with a character of two code units, and one annotation
SurrogateInit ==
  /\ content \in {<<ChEmoji>> \o t : t \in Texts}
  /\ contentEntities \in {<<e>> : e \in EntitiesOf(content)}
  /\ fmtOut = NoContent
  /\ fmtPc = "call"
  /\ SvcInit

SpecSurrogate == SurrogateInit /\ [][FmtNext]_vars

(***************************************************************************)
(* Service.handler and handleMemoCreation.                                 *)
(***************************************************************************)
\* a handler starts on update m: its locals are fresh
Begin(h, m) ==
  /\ pc[h] \in {"idle", "done"}
  /\ pending > 0
  /\ pending' = pending - 1
  /\ update' = [update EXCEPT ![h] = m]
  /\ memo' = [memo EXCEPT ![h] = 0]
  /\ err' = [err EXCEPT ![h] = FALSE]

\* the handler returns after sending `replies`, having made `cs` remote calls
Return(h, replies, cs) ==
  /\ pc' = [pc EXCEPT ![h] = "done"]
  /\ sent' = [sent EXCEPT ![h] = replies]
  /\ calls' = [calls EXCEPT ![h] = cs]

\* lines 138-218, for a message that is neither /start nor /search: the
\* token check, the content, the empty-content check, UpdateToken
HandleNote(h, m) ==
  /\ Begin(h, m)
  /\ IF store[m.From] = NoToken
     THEN /\ Return(h, {ReplyStartFirst}, <<>>)
          /\ UNCHANGED <<hContent, clientToken>>
     ELSE LET c == handlerContent(m)
          IN  IF c.panic
              THEN /\ pc' = [pc EXCEPT ![h] = "panicked"]
                   /\ sent' = [sent EXCEPT ![h] = {}]
                   /\ calls' = [calls EXCEPT ![h] = <<>>]
                   /\ UNCHANGED <<hContent, clientToken>>
              ELSE IF c.out = <<>> /\ ~m.File
              THEN /\ Return(h, {ReplyInputContent}, <<>>)
                   /\ UNCHANGED <<hContent, clientToken>>
              ELSE /\ pc' = [pc EXCEPT ![h] = "memo"]
                   /\ sent' = [sent EXCEPT ![h] = {}]
                   /\ calls' = [calls EXCEPT ![h] = <<>>]
                   /\ hContent' = [hContent EXCEPT ![h] = c]
                   /\ clientToken' = store[m.From]
  /\ UNCHANGED <<mutex, cache, now, store, nextID, historyVars, fmtVars>>

\* handleMemoCreation without its lock
MutexIgnored(h) == TRUE

\* line 106: s.mutex.Lock()
MutexFree(h) == mutex = 0

Lock(h) ==
  /\ pc[h] = "memo"
  /\ MutexFree(h)
  /\ mutex' = h
  /\ pc' = [pc EXCEPT ![h] = "locked"]
  /\ UNCHANGED <<update, hContent, memo, err, sent, calls, cache, now, clientToken,
                 store, nextID, pending, historyVars, fmtVars>>

\* handleMemoCreation without its cache lookup
CacheHitNever(h) == FALSE

\* lines 112-116: the message is of a media group and the cache has its memo
CacheHit(h) ==
  /\ update[h].MediaGroupID # NoGroup
  /\ CacheGet(cache, update[h].MediaGroupID, now).found

\* handleMemoCreation releasing the mutex after a miss, for the time of the
\* create-note call
LookupReleasing(h) ==
  LET g == update[h].MediaGroupID
  IN  /\ pc[h] = "locked"
      /\ mutex' = 0
      /\ IF CacheHit(h)
         THEN /\ memo' = [memo EXCEPT ![h] = CacheGet(cache, g, now).value]
              /\ pc' = [pc EXCEPT ![h] = "created"]
              /\ UNCHANGED <<calls, cache, nCreate>>
         ELSE /\ calls' = [calls EXCEPT ![h] = Append(@, Call("create", clientToken, FALSE))]
              /\ cache' = IF g = NoGroup THEN cache ELSE CacheAfterGet(cache, g, now)
              /\ nCreate' = [nCreate EXCEPT ![g] = @ + 1]
              /\ pc' = [pc EXCEPT ![h] = "creating"]
              /\ UNCHANGED memo
      /\ UNCHANGED <<update, hContent, err, sent, now, clientToken, store, nextID, pending,
                     nFail, lastCreate, lapsed, lastSet, lastGet, fmtVars>>

\* lines 112-120 and 129: the cached memo is returned (and the mutex
\* released), or createMemo sends the upsert request with the client's token
Lookup(h) ==
  LET g == update[h].MediaGroupID
  IN  /\ pc[h] = "locked"
      /\ IF CacheHit(h)
         THEN /\ memo' = [memo EXCEPT ![h] = CacheGet(cache, g, now).value]
              /\ mutex' = 0
              /\ pc' = [pc EXCEPT ![h] = "created"]
              /\ UNCHANGED <<calls, cache, nCreate>>
         ELSE /\ calls' = [calls EXCEPT ![h] = Append(@, Call("create", clientToken, FALSE))]
              /\ cache' = IF g = NoGroup THEN cache ELSE CacheAfterGet(cache, g, now)
              /\ nCreate' = [nCreate EXCEPT ![g] = @ + 1]
              /\ pc' = [pc EXCEPT ![h] = "creating"]
              /\ UNCHANGED <<memo, mutex>>
      /\ UNCHANGED <<update, hContent, err, sent, now, clientToken, store, nextID, pending,
                     nFail, lastCreate, lapsed, lastSet, lastGet, fmtVars>>

\* handleMemoCreation caching whatever createMemo returned
StoreMemoAlways(c, g, id, ok, t) ==
  IF g # NoGroup THEN CacheSet(c, g, id, TTL, t) ELSE c

\* lines 121-126: what the cache holds after createMemo has returned
StoreMemo(c, g, id, ok, t) ==
  IF ok /\ g # NoGroup THEN CacheSet(c, g, id, TTL, t) ELSE c

\* the remote API answers a request that carries `token`
Accepts(token, ok) == ok => token \in ValidTokens

\* handleMemoCreation leaving the mutex locked when createMemo fails
CreateReturnKeepsLock(h) ==
  LET g == update[h].MediaGroupID
      n == Len(calls[h])
  IN  /\ pc[h] = "creating"
      /\ \E ok \in BOOLEAN :
           /\ Accepts(calls[h][n].token, ok)
           /\ calls' = [calls EXCEPT ![h][n].ok = ok]
           /\ cache' = StoreMemo(cache, g, nextID, ok, now)
           /\ mutex' = IF ok THEN 0 ELSE mutex
           /\ lastCreate' = [lastCreate EXCEPT ![g] = IF ok THEN "ok" ELSE "failed"]
           /\ IF ok
              THEN /\ memo' = [memo EXCEPT ![h] = nextID]
                   /\ nextID' = nextID + 1
                   /\ pc' = [pc EXCEPT ![h] = "created"]
                   /\ UNCHANGED <<err, sent, nFail>>
              ELSE /\ err' = [err EXCEPT ![h] = TRUE]
                   /\ sent' = [sent EXCEPT ![h] = @ \cup {ReplyCreateFailed}]
                   /\ nFail' = [nFail EXCEPT ![g] = @ + 1]
                   /\ pc' = [pc EXCEPT ![h] = "done"]
                   /\ UNCHANGED <<memo, nextID>>
      /\ UNCHANGED <<update, hContent, now, clientToken, store, pending,
                     nCreate, lapsed, lastSet, lastGet, fmtVars>>

\* handleMemoCreation trying a failed create once more
CreateReturnRetries(h) ==
  LET g == update[h].MediaGroupID
      n == Len(calls[h])
  IN  /\ pc[h] = "creating"
      /\ \E ok \in BOOLEAN :
           /\ Accepts(calls[h][n].token, ok)
           /\ calls' = [calls EXCEPT ![h][n].ok = ok]
           /\ cache' = StoreMemo(cache, g, nextID, ok, now)
           /\ mutex' = IF ~ok /\ n < 2 THEN mutex ELSE 0
           /\ lastCreate' = [lastCreate EXCEPT ![g] = IF ok THEN "ok" ELSE "failed"]
           /\ IF ok
              THEN /\ memo' = [memo EXCEPT ![h] = nextID]
                   /\ nextID' = nextID + 1
                   /\ pc' = [pc EXCEPT ![h] = "created"]
                   /\ UNCHANGED <<err, sent, nFail>>
              ELSE /\ nFail' = [nFail EXCEPT ![g] = @ + 1]
                   /\ IF n < 2
                      THEN /\ pc' = [pc EXCEPT ![h] = "locked"]
                           /\ UNCHANGED <<err, sent>>
                      ELSE /\ err' = [err EXCEPT ![h] = TRUE]
                           /\ sent' = [sent EXCEPT ![h] = @ \cup {ReplyCreateFailed}]
                           /\ pc' = [pc EXCEPT ![h] = "done"]
                   /\ UNCHANGED <<memo, nextID>>
      /\ UNCHANGED <<update, hContent, now, clientToken, store, pending,
                     nCreate, lapsed, lastSet, lastGet, fmtVars>>

\* lines 120-135 and 221-228: createMemo returns; on success the memo is
\* cached for its group; the mutex is released; on failure the handler
\* replies and returns
CreateReturn(h) ==
  LET g == update[h].MediaGroupID
      n == Len(calls[h])
  IN  /\ pc[h] = "creating"
      /\ \E ok \in BOOLEAN :
           /\ Accepts(calls[h][n].token, ok)
           /\ calls' = [calls EXCEPT ![h][n].ok = ok]
           /\ cache' = StoreMemo(cache, g, nextID, ok, now)
           /\ mutex' = 0
           /\ lastCreate' = [lastCreate EXCEPT ![g] = IF ok THEN "ok" ELSE "failed"]
           /\ IF ok
              THEN /\ memo' = [memo EXCEPT ![h] = nextID]
                   /\ nextID' = nextID + 1
                   /\ pc' = [pc EXCEPT ![h] = "created"]
                   /\ UNCHANGED <<err, sent, nFail>>
              ELSE /\ err' = [err EXCEPT ![h] = TRUE]
                   /\ sent' = [sent EXCEPT ![h] = @ \cup {ReplyCreateFailed}]
                   /\ nFail' = [nFail EXCEPT ![g] = @ + 1]
                   /\ pc' = [pc EXCEPT ![h] = "done"]
                   /\ UNCHANGED <<memo, nextID>>
      /\ UNCHANGED <<update, hContent, now, clientToken, store, pending,
                     nCreate, lapsed, lastSet, lastGet, fmtVars>>

\* what becomes of the file of a message (processFileMessage and
\* saveResourceFromFile): GetFile fails, the download fails, the upload
\* fails, the upsert that attaches the file fails, or all succeed
FileOutcomes == {"getfile", "download", "upload", "attach", "ok"}

\* the remote calls of saveResourceFromFile, lines 487-497
FileCalls(r, token) ==
  CASE r \in {"getfile", "download"} -> <<>>
    [] r = "upload" -> <<Call("upload", token, FALSE)>>
    [] r = "attach" -> <<Call("upload", token, TRUE), Call("attach", token, FALSE)>>
    [] r = "ok" -> <<Call("upload", token, TRUE), Call("attach", token, TRUE)>>

\* processFileMessage dropping the errors of GetFile and saveResourceFromFile
FileRepliesNone(r) == {}

\* the replies of processFileMessage, lines 462-471: sendError when GetFile
\* or saveResourceFromFile returns an error
FileReplies(r) == IF r \in {"getfile", "download", "upload"} THEN {ReplyFileError} ELSE {}

\* lines 230-253: the file of the message, then the reply with the keyboard
Finish(h) ==
  /\ pc[h] = "created"
  /\ IF update[h].File
     THEN \E r \in FileOutcomes :
            /\ \A i \in 1..Len(FileCalls(r, clientToken)) :
                 Accepts(clientToken, FileCalls(r, clientToken)[i].ok)
            /\ calls' = [calls EXCEPT ![h] = @ \o FileCalls(r, clientToken)]
            /\ sent' = [sent EXCEPT ![h] = @ \cup FileReplies(r) \cup {ReplySaved}]
     ELSE /\ sent' = [sent EXCEPT ![h] = @ \cup {ReplySaved}]
          /\ UNCHANGED calls
  /\ pc' = [pc EXCEPT ![h] = "done"]
  /\ UNCHANGED <<update, hContent, memo, err, sharedVars, historyVars, fmtVars>>

\* time passes; an entry whose expiry passes has lapsed
Tick ==
  /\ now < MaxTime
  /\ now' = now + 1
  /\ lapsed' = [g \in Groups |-> lapsed[g] \/ (cache[g].present /\ Expired(cache[g], now + 1))]
  /\ UNCHANGED <<handlerVars, mutex, cache, clientToken, store, nextID, pending,
                 nCreate, nFail, lastCreate, lastSet, lastGet, fmtVars>>

\* startGC: the background sweep runs
Sweep ==
  /\ cache' = CacheSweep(cache, now)
  /\ cache' # cache
  /\ UNCHANGED <<handlerVars, mutex, now, clientToken, store, nextID, pending,
                 historyVars, fmtVars>>

\* the note messages of the concurrent runs: from a registered sender, of a
\* media group (with its file) or of none
GroupNotes ==
  {Note("u1", <<ChLetter>>, <<>>, <<>>, <<>>, ForwardNone, g, g # NoGroup) : g \in AllGroups}

Init == FmtIdle /\ SvcInit

Next ==
  \/ \E h \in Handlers, m \in GroupNotes : pc[h] = "idle" /\ HandleNote(h, m)
  \/ \E h \in Handlers : Lock(h)
  \/ \E h \in Handlers : Lookup(h)
  \/ \E h \in Handlers : CreateReturn(h)
  \/ \E h \in Handlers : Finish(h)
  \/ Tick
  \/ Sweep

Spec == Init /\ [][Next]_vars

(***************************************************************************)
(* The command and callback handlers, one update at a time.                *)
(***************************************************************************)
\* startHandler storing the token before the remote API has accepted it
HandleStartStoresFirst(h, m) ==
  /\ Begin(h, m)
  /\ clientToken' = m.Arg
  /\ \E ok \in BOOLEAN :
       /\ Accepts(m.Arg, ok)
       /\ Return(h, {IF ok THEN ReplyHello ELSE ReplyInvalidToken},
                 <<Call("user_detail", m.Arg, ok)>>)
       /\ store' = [store EXCEPT ![m.From] = m.Arg]
  /\ UNCHANGED <<hContent, mutex, cache, now, nextID, historyVars, fmtVars>>

\* lines 256-276: startHandler
HandleStart(h, m) ==
  /\ Begin(h, m)
  /\ clientToken' = m.Arg
  /\ \E ok \in BOOLEAN :
       /\ Accepts(m.Arg, ok)
       /\ Return(h, {IF ok THEN ReplyHello ELSE ReplyInvalidToken},
                 <<Call("user_detail", m.Arg, ok)>>)
       /\ store' = IF ok THEN [store EXCEPT ![m.From] = m.Arg] ELSE store
  /\ UNCHANGED <<hContent, mutex, cache, now, nextID, historyVars, fmtVars>>

\* what GetNoteList returns: an error, no note, some notes
SearchOutcomes == {"error", "empty", "found"}

\* lines 439-457: the replies of searchHandler
SearchReplies(r) ==
  CASE r = "error" -> {}
    [] r = "empty" -> {ReplyNoMemos}
    [] r = "found" -> {ReplySearchResult}

\* lines 430-458: searchHandler
HandleSearch(h, m) ==
  /\ Begin(h, m)
  /\ clientToken' = store[m.From]
  /\ \E r \in SearchOutcomes :
       /\ Accepts(store[m.From], r # "error")
       /\ Return(h, SearchReplies(r), <<Call("list", store[m.From], r # "error")>>)
  /\ UNCHANGED <<hContent, mutex, cache, now, store, nextID, historyVars, fmtVars>>

\* strconv.Atoi succeeds on these
Numerals == {"1", "2"}

\* what the remote API does for a callback: GetNoteDetail fails, the share
\* or the update fails, or all succeed
CallbackOutcomes == {"detail", "action", "ok"}

\* callbackQueryHandler whose switch lets an unknown action through to the
\* update of the note
CallbackResultNoDefault(parts, token, r) ==
  IF Len(parts) # 2 THEN [answer |-> AnswerInvalidCommand, calls |-> <<>>]
  ELSE IF parts[2] \notin Numerals THEN [answer |-> AnswerInvalidID, calls |-> <<>>]
  ELSE IF r = "detail"
       THEN [answer |-> AnswerNotFound, calls |-> <<Call("detail", token, FALSE)>>]
  ELSE IF parts[1] \in {"public", "private"}
       THEN [answer |-> IF r = "ok" THEN AnswerUpdated ELSE AnswerUpdateFailed,
             calls |-> <<Call("detail", token, TRUE), Call("share", token, r = "ok")>>]
  ELSE [answer |-> IF r = "ok" THEN AnswerUpdated ELSE AnswerUpdateFailed,
        calls |-> <<Call("detail", token, TRUE), Call("update", token, r = "ok")>>]

\* lines 314-398 and shareNote: the answer to the callback and the remote calls
CallbackResult(parts, token, r) ==
  IF Len(parts) # 2 THEN [answer |-> AnswerInvalidCommand, calls |-> <<>>]
  ELSE IF parts[2] \notin Numerals THEN [answer |-> AnswerInvalidID, calls |-> <<>>]
  ELSE IF r = "detail"
       THEN [answer |-> AnswerNotFound, calls |-> <<Call("detail", token, FALSE)>>]
  ELSE IF parts[1] \in {"public", "private"}
       THEN [answer |-> IF r = "ok" THEN AnswerUpdated ELSE AnswerUpdateFailed,
             calls |-> <<Call("detail", token, TRUE), Call("share", token, r = "ok")>>]
  ELSE IF parts[1] = "pin"
       THEN [answer |-> IF r = "ok" THEN AnswerUpdated ELSE AnswerUpdateFailed,
             calls |-> <<Call("detail", token, TRUE), Call("update", token, r = "ok")>>]
  ELSE [answer |-> AnswerUnknownAction, calls |-> <<Call("detail", token, TRUE)>>]

\* lines 300-399: callbackQueryHandler
HandleCallback(h, m) ==
  /\ Begin(h, m)
  /\ IF store[m.From] = NoToken
     THEN /\ Return(h, {ReplyStartFirst}, <<>>)
          /\ UNCHANGED clientToken
     ELSE /\ clientToken' = store[m.From]
          /\ \E r \in CallbackOutcomes :
               LET res == CallbackResult(m.Data, store[m.From], r)
               IN  /\ \A i \in 1..Len(res.calls) : Accepts(store[m.From], res.calls[i].ok)
                   /\ Return(h, {res.answer}, res.calls)
  /\ UNCHANGED <<hContent, mutex, cache, now, store, nextID, historyVars, fmtVars>>

\* the updates of the sequential runs: from a registered and from an
\* unregistered sender
Senders == {"u1", "u3"}

AllNotes ==
  {Note(u, t, <<>>, <<>>, <<>>, ForwardNone, g, f) :
     u \in Senders, t \in {<<>>, <<ChLetter>>}, g \in {NoGroup, "g1"}, f \in BOOLEAN}

Command(from, cmd, arg) ==
  Update("message", from, cmd, arg, <<>>, <<>>, <<>>, <<>>, ForwardNone, NoGroup, FALSE, <<>>)

Starts == {Command(u, "start", t) : u \in Senders, t \in StartTokens}
Searches == {Command(u, "search", "words") : u \in Senders}

CallbackData ==
  {<<"pin", "1">>, <<"public", "1">>, <<"private", "1">>, <<"zap", "1">>, <<"pin", "x">>, <<"pin">>}

Callbacks ==
  {Update("callback", u, "", "", <<>>, <<>>, <<>>, <<>>, ForwardNone, NoGroup, FALSE, d) :
     u \in Senders, d \in CallbackData}

HandlersNext ==
  \/ \E m \in AllNotes : HandleNote(1, m)
  \/ \E m \in Starts : HandleStart(1, m)
  \/ \E m \in Searches : HandleSearch(1, m)
  \/ \E m \in Callbacks : HandleCallback(1, m)
  \/ Lock(1)
  \/ Lookup(1)
  \/ CreateReturn(1)
  \/ Finish(1)

SpecHandlers == Init /\ [][HandlersNext]_vars

(***************************************************************************)
(* The content of a note: the handler on a message with no annotation or   *)
(* one, as text or as caption, forwarded or not; and formatContent on the  *)
(* same text and annotations.                                              *)
(***************************************************************************)
ContentNotes(text, ents) ==
  {Note("u1", text, ents, <<>>, <<>>, fwd, NoGroup, FALSE) : fwd \in Forwards}
    \cup {Note("u1", <<>>, <<>>, text, ents, fwd, NoGroup, FALSE) : fwd \in Forwards}

ContentInit ==
  /\ content \in Texts
  /\ contentEntities \in ShortEntityLists(content)
  /\ fmtOut = NoContent
  /\ fmtPc = "call"
  /\ SvcInit

ContentNext ==
  \/ FormatContent
  \/ \E m \in ContentNotes(content, contentEntities) : pc[1] = "idle" /\ HandleNote(1, m)

SpecContent == ContentInit /\ [][ContentNext]_vars

(***************************************************************************)
(* The cache alone: get, set, the sweep and the clock.                     *)
(***************************************************************************)
CacheValues == {1, 2}
TTLs == {1, TTL}

CacheSetOp(k, v, ttl) ==
  /\ cache' = CacheSet(cache, k, v, ttl, now)
  /\ lastSet' = [lastSet EXCEPT ![k] = [set |-> TRUE, value |-> v, at |-> now, ttl |-> ttl]]
  /\ UNCHANGED <<handlerVars, mutex, now, clientToken, store, nextID, pending,
                 nCreate, nFail, lastCreate, lapsed, lastGet, fmtVars>>

CacheGetOp(k) ==
  /\ lastGet' = [got |-> TRUE, key |-> k, found |-> CacheGet(cache, k, now).found,
                 value |-> CacheGet(cache, k, now).value, at |-> now, since |-> lastSet[k]]
  /\ cache' = CacheAfterGet(cache, k, now)
  /\ UNCHANGED <<handlerVars, mutex, now, clientToken, store, nextID, pending,
                 nCreate, nFail, lastCreate, lapsed, lastSet, fmtVars>>

CacheNext ==
  \/ \E k \in Groups, v \in CacheValues, ttl \in TTLs : CacheSetOp(k, v, ttl)
  \/ \E k \in Groups : CacheGetOp(k)
  \/ Tick
  \/ Sweep

SpecCache == Init /\ [][CacheNext]_vars

(***************************************************************************)
(* What the specification says of the reformatter, on code points.         *)
(***************************************************************************)
\* the number of characters before code unit off
CpIndex(text, off) ==
  CHOOSE k \in 0..Len(text) : Len(Encode(SubSeq(text, 1, k))) = off

SpanOf(text, e) ==
  SubSeq(text, CpIndex(text, e.Offset) + 1, CpIndex(text, e.Offset + e.Length))
BeforeOf(text, e) == SubSeq(text, 1, CpIndex(text, e.Offset))
AfterOf(text, e) == SubSeq(text, CpIndex(text, e.Offset + e.Length) + 1, Len(text))

RECURSIVE LeadLen(_)
LeadLen(s) == IF s # <<>> /\ IsSpace(Head(s)) THEN 1 + LeadLen(Tail(s)) ELSE 0

RECURSIVE TrailLen(_)
TrailLen(s) ==
  IF s # <<>> /\ IsSpace(s[Len(s)]) THEN 1 + TrailLen(SubSeq(s, 1, Len(s) - 1)) ELSE 0

LeadOf(s) == SubSeq(s, 1, LeadLen(s))
TrailOf(s) == SubSeq(s, Len(s) - TrailLen(s) + 1, Len(s))
CoreOf(s) == SubSeq(s, LeadLen(s) + 1, Len(s) - TrailLen(s))

\* the rewrite of each kind around inner
RefMarkup(e, inner) ==
  CASE e.Type = TypeURL ->
         <<ChLBracket>> \o inner \o <<ChRBracket, ChLParen>> \o inner \o <<ChRParen>>
    [] e.Type = TypeTextLink ->
         <<ChLBracket>> \o inner \o <<ChRBracket, ChLParen>> \o e.URL \o <<ChRParen>>
    [] e.Type = TypeBold -> <<ChStar, ChStar>> \o inner \o <<ChStar, ChStar>>
    [] e.Type = TypeItalic -> <<ChStar>> \o inner \o <<ChStar>>

\* the whitespace-edge policy: leading and trailing whitespace outside
RefWrap(e, span) ==
  IF AllSpace(span) THEN span
  ELSE LeadOf(span) \o RefMarkup(e, CoreOf(span)) \o TrailOf(span)

\* every way of putting the markup around the span with some of its leading
\* and some of its trailing whitespace left outside
WrapAny(e, span) ==
  IF AllSpace(span) THEN {span}
  ELSE {SubSeq(span, 1, i) \o RefMarkup(e, SubSeq(span, i + 1, Len(span) - j))
          \o SubSeq(span, Len(span) - j + 1, Len(span)) :
          i \in 0..LeadLen(span), j \in 0..TrailLen(span)}

\* ascending, non-overlapping offsets
Ascending(es) ==
  \A i \in 1..Len(es) - 1 : es[i].Offset + es[i].Length <= es[i + 1].Offset

Supported(es) == \A i \in 1..Len(es) : IsSupported(es[i])

\* processed span 1 + gap + processed span 2 + ... + tail, from code unit
\* `from` on, with the whitespace-edge policy
RECURSIVE RefOut(_, _, _)
RefOut(text, es, from) ==
  IF es = <<>> THEN SubSeq(text, CpIndex(text, from) + 1, Len(text))
  ELSE LET e == Head(es)
       IN  IF ~IsSupported(e) THEN RefOut(text, Tail(es), from)
           ELSE SubSeq(text, CpIndex(text, from) + 1, CpIndex(text, e.Offset))
                  \o RefWrap(e, SpanOf(text, e))
                  \o RefOut(text, Tail(es), e.Offset + e.Length)

\* the same, with the whitespace of each span left on either side of the
\* markup: the set of acceptable outputs
RECURSIVE RefOuts(_, _, _)
RefOuts(text, es, from) ==
  IF es = <<>> THEN {SubSeq(text, CpIndex(text, from) + 1, Len(text))}
  ELSE LET e == Head(es)
       IN  IF ~IsSupported(e) THEN RefOuts(text, Tail(es), from)
           ELSE {SubSeq(text, CpIndex(text, from) + 1, CpIndex(text, e.Offset)) \o w \o r :
                   w \in WrapAny(e, SpanOf(text, e)),
                   r \in RefOuts(text, Tail(es), e.Offset + e.Length)}

Returned(out) == [panic |-> FALSE, out |-> out]

NoLineBreakInCore(text, es) ==
  \A i \in 1..Len(es) :
    LET core == CoreOf(SpanOf(text, es[i]))
    IN  \A k \in 1..Len(core) : core[k] # ChNewline

(***************************************************************************)
(* The claims on the media-group cache and on handleMemoCreation.          *)
(***************************************************************************)
\* the handlers for which handleMemoCreation has returned a memo of group g
ReturnedFor(g) ==
  {h \in Handlers : update[h].MediaGroupID = g /\ pc[h] \in {"created", "done"} /\ ~err[h]}

\* C1: handlers that run concurrently on messages of one media group, all
\* inside the expiry window of the group's entry and with no create-note
\* call failing, issue exactly one create-note call in total, and
\* handleMemoCreation returns the same note id to all of them.
C1_OneCreatePerGroup ==
  \A g \in Groups :
    (nFail[g] = 0 /\ ~lapsed[g]) =>
      /\ nCreate[g] <= 1
      /\ ReturnedFor(g) # {} => nCreate[g] = 1
      /\ \A h1, h2 \in ReturnedFor(g) : memo[h1] = memo[h2] /\ memo[h1] # 0

\* C1, its case: two handlers of one group have both returned, one note created
C1_Witness ==
  \E h1, h2 \in Handlers :
    /\ h1 # h2
    /\ {h1, h2} \subseteq ReturnedFor("g1")
    /\ nFail["g1"] = 0 /\ ~lapsed["g1"]
    /\ nCreate["g1"] = 1
    /\ memo[h1] = memo[h2]

\* C2: when the create-note call for a grouped message fails, nothing is
\* stored for the group (no lookup finds an entry afterwards),
\* handleMemoCreation returns an error and the handler sends the failure
\* reply and returns; and the handler of the next message of the group,
\* finding the latest create failed, issues a create-note call itself.
C2_FailedCreateNotCached ==
  [][\A h \in Handlers :
       LET g == update[h].MediaGroupID
       IN  /\ (g # NoGroup /\ pc[h] = "creating" /\ pc'[h] # "creating" /\ ~calls'[h][Len(calls'[h])].ok) =>
                 /\ cache'[g] = cache[g]
                 /\ ~CacheGet(cache', g, now').found
                 /\ err'[h]
                 /\ ReplyCreateFailed \in sent'[h]
                 /\ pc'[h] = "done"
           /\ (g # NoGroup /\ pc[h] = "locked" /\ pc'[h] # "locked" /\ lastCreate[g] = "failed") =>
                 /\ pc'[h] = "creating"
                 /\ nCreate'[g] = nCreate[g] + 1]_vars

\* C2, its case: the create of a group failed, and the handler of the next
\* message of the group has created the note
C2_Witness ==
  \E h1, h2 \in Handlers :
    /\ update[h1].MediaGroupID = "g1" /\ update[h2].MediaGroupID = "g1"
    /\ err[h1] /\ ReplyCreateFailed \in sent[h1] /\ pc[h1] = "done"
    /\ nFail["g1"] = 1 /\ nCreate["g1"] = 2
    /\ pc[h2] = "created" /\ memo[h2] # 0

\* C3: after set(key, v, T) at time t, a get(key) before t+T returns v and
\* found, and a get(key) after t+T returns not found, whatever was got and
\* set on other keys and whether or not the sweep has run in between.
C3_CacheTTL ==
  (lastGet.got /\ lastGet.since.set) =>
    LET s == lastGet.since
    IN  /\ lastGet.at < s.at + s.ttl => (lastGet.found /\ lastGet.value = s.value)
        /\ lastGet.at > s.at + s.ttl => ~lastGet.found

\* C3, its case: a get of a key after the expiry of its latest set, with the
\* other key set in between and still live
C3_Witness ==
  /\ lastGet.got /\ lastGet.since.set
  /\ lastGet.key = "g1"
  /\ lastGet.at > lastGet.since.at + lastGet.since.ttl
  /\ ~lastGet.found
  /\ lastSet["g2"].set /\ lastSet["g2"].at > lastSet["g1"].at
  /\ CacheGet(cache, "g2", now).found

\* C4: every applied annotation (ascending, non-overlapping, of a supported
\* kind, with a non-empty core) is emitted as lead, markup around the core
\* only, trail: leading and trailing whitespace are outside the markup.
\* Stated for the spans whose core holds no line break.
C4_WhitespaceOutsideMarkup ==
  (/\ fmtPc = "ret"
   /\ contentEntities # <<>>
   /\ Supported(contentEntities)
   /\ Ascending(contentEntities)
   /\ \A i \in 1..Len(contentEntities) : ~AllSpace(SpanOf(content, contentEntities[i]))
   /\ NoLineBreakInCore(content, contentEntities))
  => fmtOut = Returned(RefOut(content, contentEntities, 0))

\* the list without its i-th annotation
RemoveAt(es, i) == SubSeq(es, 1, i - 1) \o SubSeq(es, i + 1, Len(es))

\* the i-th annotation starts before the end of the previously applied one
StartsInsidePrevious(text, es, i) ==
  LET st == Loop(Encode(text), LoopInit, SubSeq(es, 1, i - 1))
  IN  /\ IsSupported(es[i])
      /\ es[i].Offset < st.prevOffset + st.prevLength

\* C5: a supported annotation that starts before the end of the previously
\* applied annotation is dropped: the output is the output for the list
\* without it.  Stated for the inputs on which the shorter list is formatted
\* without a panic.
C5_OverlappingAnnotationDropped ==
  fmtPc = "ret" =>
    \A i \in 1..Len(contentEntities) :
      (/\ StartsInsidePrevious(content, contentEntities, i)
       /\ ~formatContent(content, RemoveAt(contentEntities, i)).panic)
      => fmtOut = formatContent(content, RemoveAt(contentEntities, i))

\* C6: a single applied annotation whose span has no leading or trailing
\* whitespace is replaced by [inner](inner), [inner](target), **inner** or
\* *inner*, the text before and after it unchanged.
C6_KindRewrite ==
  (/\ fmtPc = "ret"
   /\ Len(contentEntities) = 1
   /\ IsSupported(contentEntities[1])
   /\ LeadLen(SpanOf(content, contentEntities[1])) = 0
   /\ TrailLen(SpanOf(content, contentEntities[1])) = 0)
  => fmtOut = Returned(BeforeOf(content, contentEntities[1])
                         \o RefMarkup(contentEntities[1], SpanOf(content, contentEntities[1]))
                         \o AfterOf(content, contentEntities[1]))

\* the text of a message as the handler reads it: the caption when there
\* is one, the text otherwise
TextOf(m) == IF m.Caption # <<>> THEN m.Caption ELSE m.Text

NoAnnotations(m) == m.Entities = <<>> /\ m.CaptionEntities = <<>>

\* C7, as stated: formatContent with an empty annotation list returns the
\* text unchanged, and the handler stores a message that has no annotations
\* with content equal to its text (or caption) unchanged.
C7_Unchanged ==
  /\ (fmtPc = "ret" /\ contentEntities = <<>>) => fmtOut = Returned(content)
  /\ \A h \in Handlers :
       (pc[h] = "memo" /\ NoAnnotations(update[h])) =>
          hContent[h] = Returned(TextOf(update[h]))

\* C7, amended: formatContent with an empty annotation list returns the
\* text unchanged, and the handler stores a message that has no annotations
\* with its text (or caption) unchanged, after the "Forwarded from" line
\* when the message is a forward; a message that is not a forward is stored
\* with content equal to its text (or caption).
C7_UnchangedAfterForwardLine ==
  /\ (fmtPc = "ret" /\ contentEntities = <<>>) => fmtOut = Returned(content)
  /\ \A h \in Handlers :
       (pc[h] = "memo" /\ NoAnnotations(update[h])) =>
          /\ hContent[h] = Returned(ForwardLine(update[h].Forward) \o TextOf(update[h]))
          /\ update[h].Forward = ForwardNone => hContent[h] = Returned(TextOf(update[h]))

\* C7, its case: formatContent has returned on a text with no annotation,
\* and the handler has the content of a forwarded caption with no annotation
C7_Witness ==
  /\ fmtPc = "ret" /\ contentEntities = <<>> /\ content # <<>>
  /\ pc[1] = "memo" /\ NoAnnotations(update[1])
  /\ update[1].Caption # <<>>
  /\ update[1].Forward = ForwardNamed

\* C8: with a two-unit symbol before the annotated span, what is wrapped is
\* the code units [offset, offset+length) of the text, and the symbol is
\* copied through: the output is the characters before the span, the span
\* with the markup of its kind (its edge whitespace on either side of the
\* markup), the characters after the span.
C8_Utf16Offsets ==
  (/\ fmtPc = "ret"
   /\ IsSupported(contentEntities[1])
   /\ \E k \in 1..Len(BeforeOf(content, contentEntities[1])) :
        BeforeOf(content, contentEntities[1])[k] = ChEmoji)
  => /\ ~fmtOut.panic
     /\ fmtOut.out \in {BeforeOf(content, contentEntities[1]) \o w
                          \o AfterOf(content, contentEntities[1]) :
                          w \in WrapAny(contentEntities[1], SpanOf(content, contentEntities[1]))}

\* C9: for in-range annotations in ascending, non-overlapping order the
\* output is gap, processed span, gap, processed span, ..., tail, every gap
\* and the tail copied verbatim.
C9_OutputAssembly ==
  (fmtPc = "ret" /\ Ascending(contentEntities))
  => /\ ~fmtOut.panic
     /\ fmtOut.out \in RefOuts(content, contentEntities, 0)

(***************************************************************************)
(* The claims on the handlers.                                             *)
(***************************************************************************)
\* a remote note-API call of handler h failed
SomeCallFailed(h) == \E i \in 1..Len(calls[h]) : ~calls[h][i].ok

\* C10: whenever a remote note-API call made by a handler fails (create,
\* search, get-note, share, update, or the upsert that attaches a file), a
\* reply or callback answer reporting the failure has been sent to the chat
\* when the handler returns.
C10_FailureReported ==
  \A h \in Handlers :
    (pc[h] = "done" /\ SomeCallFailed(h)) => sent[h] \cap FailureReplies # {}

\* C11: an event from a sender with no registered access token (a note
\* message, a /search command or a button callback) is answered with the
\* prompt to register a token, and no call to the remote note API is made
\* for it.
C11_NoTokenPrompt ==
  \A h \in Handlers :
    (/\ pc[h] = "done"
     /\ update[h].Kind \in {"message", "callback"}
     /\ update[h].Cmd # "start"
     /\ store[update[h].From] = NoToken) =>
        (sent[h] = {ReplyStartFirst} /\ calls[h] = <<>>)

(***************************************************************************)
(* The claims on the lock of handleMemoCreation.                           *)
(***************************************************************************)
\* handler h is between its lock and its return from handleMemoCreation
InSection(h) == pc[h] \in {"locked", "creating"}

\* the next step of handler h inside Service.handler
HandlerStep(h) == Lock(h) \/ Lookup(h) \/ CreateReturn(h) \/ Finish(h)

\* C12: the lock of media-group coalescing does not serialize the handling
\* of non-grouped messages: a handler of a message with no group id that is
\* about to create its note can go on while another handler is inside the
\* check-or-create-and-insert section of a media group.
C12_NonGroupedNotSerialized ==
  \A h1, h2 \in Handlers :
    (/\ h1 # h2
     /\ pc[h1] = "memo" /\ update[h1].MediaGroupID = NoGroup
     /\ InSection(h2) /\ update[h2].MediaGroupID # NoGroup) =>
        ENABLED HandlerStep(h1)

\* C13: the cache holds at most one entry per key, and no step of any
\* handler (nor the sweep) replaces or removes the entry of a group while it
\* is live: once a group id maps to a note, a get inside the expiry window
\* returns that note, whatever the interleaving and the create failures.
C13_LiveEntryKept ==
  [][\A g \in Groups :
       CacheGet(cache, g, now).found =>
         /\ cache'[g] = cache[g]
         /\ \A h \in Handlers :
              (update[h].MediaGroupID = g /\ pc[h] = "locked" /\ pc'[h] # "locked") =>
                 (memo'[h] = cache[g].value /\ nCreate'[g] = nCreate[g])]_vars

\* C13, its case: after a failed create for the group, the note of a later
\* handler is in the cache, live
C13_Witness ==
  \E h \in Handlers :
    /\ update[h].MediaGroupID = "g1" /\ pc[h] \in {"created", "done"}
    /\ nFail["g1"] = 1
    /\ CacheGet(cache, "g1", now).found
    /\ CacheGet(cache, "g1", now).value = memo[h]
    /\ now > 0

\* C14: the lookup, the create-note call on a miss and the insert are one
\* critical section: at most one handler is between its lock and its return
\* from handleMemoCreation, that handler holds the mutex, and while it is
\* there no step changes the cache entry of its group but its own insert.
C14_OneInSection ==
  /\ [](\A h1, h2 \in Handlers : (InSection(h1) /\ InSection(h2)) => h1 = h2)
  /\ [](\A h \in Handlers : InSection(h) => mutex = h)
  /\ [][\A h \in Handlers :
          LET g == update[h].MediaGroupID
          IN  (pc[h] = "creating" /\ pc'[h] = "creating" /\ g # NoGroup) =>
                 (~CacheGet(cache', g, now').found /\ nCreate'[g] = nCreate[g])]_vars

\* C14, its case: a handler's create call is in flight for a group while
\* another handler of the same group waits for the lock
C14_Witness ==
  \E h1, h2 \in Handlers :
    /\ h1 # h2
    /\ update[h1].MediaGroupID = "g1" /\ update[h2].MediaGroupID = "g1"
    /\ pc[h1] = "creating" /\ pc[h2] = "memo"

(***************************************************************************)
(* The handlers under a fair scheduler: a goroutine that can run does run, *)
(* a goroutine that waits for the mutex gets it (sync.Mutex hands the lock *)
(* to a starving waiter), and every create-note call returns (the client's *)
(* timeout, client.go lines 59-66).  The clock plays no part here.         *)
(***************************************************************************)
LiveNext ==
  \/ \E h \in Handlers, m \in GroupNotes : pc[h] = "idle" /\ HandleNote(h, m)
  \/ \E h \in Handlers : Lock(h)
  \/ \E h \in Handlers : Lookup(h)
  \/ \E h \in Handlers : CreateReturn(h)
  \/ \E h \in Handlers : Finish(h)

Fairness ==
  \A h \in Handlers :
    /\ SF_vars(Lock(h))
    /\ WF_vars(Lookup(h))
    /\ WF_vars(CreateReturn(h))
    /\ WF_vars(Finish(h))

SpecLive == Init /\ [][LiveNext]_vars /\ Fairness

\* C15: the lock is released on every return of handleMemoCreation (cache
\* hit, success, failed create): no handler holds it outside the section,
\* and, every create-note call returning and the scheduler being fair, a
\* handler that waits for the lock gets it and its handling finishes with
\* the lock not held by it.
C15_LockReleased ==
  /\ [](\A h \in Handlers : ~InSection(h) => mutex # h)
  /\ \A h \in Handlers : (pc[h] = "memo") ~> (pc[h] = "locked")
  /\ \A h \in Handlers : (pc[h] = "memo") ~> (pc[h] = "done" /\ mutex # h)

\* C15, its case: a handler whose create failed has returned, and the
\* handler that waited for the lock now holds it
C15_Witness ==
  \E h1, h2 \in Handlers :
    /\ h1 # h2
    /\ pc[h1] = "done" /\ err[h1]
    /\ pc[h2] = "locked" /\ mutex = h2

\* the create-note calls made so far in the handling of h's message
Creates(h) == Cardinality({i \in 1..Len(calls[h]) : calls[h][i].api = "create"})

\* C16: the handling of one note message issues at most one create-note
\* call: exactly one for a non-grouped message and for a grouped message
\* that misses the cache, none for a grouped message that hits it; a failed
\* create is not repeated; and the handling of a non-grouped message leaves
\* the cache as it is and does not depend on it.
C16_OneCreatePerMessage ==
  /\ [](\A h \in Handlers : Creates(h) <= 1)
  /\ [](\A h \in Handlers :
          (pc[h] = "created" /\ update[h].MediaGroupID = NoGroup) => Creates(h) = 1)
  /\ [][\A h \in Handlers :
          (pc[h] = "locked" /\ pc'[h] # "locked") =>
             IF update[h].MediaGroupID # NoGroup
                /\ CacheGet(cache, update[h].MediaGroupID, now).found
             THEN Creates(h)' = 0 /\ pc'[h] = "created"
             ELSE Creates(h)' = 1 /\ pc'[h] = "creating"]_vars
  /\ [][\A h \in Handlers :
          (pc[h] = "creating" /\ pc'[h] # "creating" /\ ~calls'[h][Len(calls'[h])].ok) =>
             (pc'[h] = "done" /\ Creates(h)' = 1)]_vars
  /\ [][\A h \in Handlers :
          (/\ update[h].MediaGroupID = NoGroup
           /\ pc[h] \in {"memo", "locked", "creating", "created"}
           /\ pc'[h] # pc[h]) => cache' = cache]_vars

\* C16, its case: the handling of a non-grouped message has ended after one
\* failed create, with an entry in the cache that it left alone, and the
\* handling of a grouped message after one create
C16_Witness ==
  \E h1, h2 \in Handlers :
    /\ update[h1].MediaGroupID = NoGroup /\ pc[h1] = "done" /\ err[h1] /\ Creates(h1) = 1
    /\ update[h2].MediaGroupID = "g1" /\ pc[h2] = "done" /\ Creates(h2) = 1
    /\ cache["g1"].present

\* C17: a sweep removes exactly the entries whose expiry has passed and
\* leaves every live entry as it is, under any interleaving with get and
\* set: an entry changes only by a set of its key or by the removal of an
\* expired entry, and what a get returns is decided by the latest set of
\* its key and the time alone, as in the run with the sweeps removed.
C17_SweepFrame ==
  /\ [](lastGet.got =>
          LET s == lastGet.since
          IN  /\ lastGet.found <=> (s.set /\ lastGet.at <= s.at + s.ttl)
              /\ lastGet.found => lastGet.value = s.value)
  /\ [][\A k \in Groups :
          cache'[k] # cache[k] =>
             \/ lastSet'[k] # lastSet[k]
             \/ (cache[k].present /\ Expired(cache[k], now) /\ cache'[k] = NoEntry)]_vars
  /\ [][(cache' # cache /\ UNCHANGED <<lastSet, lastGet, now>>) =>
          \A k \in Groups :
            cache'[k] = IF cache[k].present /\ Expired(cache[k], now) THEN NoEntry ELSE cache[k]]_vars

\* C17, its case: the entry of g1 has been removed after its expiry, with no
\* get since then (so by the sweep), and the entry of g2, got before, is
\* still there, live
C17_Witness ==
  /\ lastSet["g1"].set /\ ~cache["g1"].present
  /\ lastGet.got /\ lastGet.key = "g2" /\ lastGet.found
  /\ lastGet.at <= lastSet["g1"].at + lastSet["g1"].ttl
  /\ CacheGet(cache, "g2", now).found
  /\ cache["g2"].value = lastGet.value

(***************************************************************************)
(* The claims on the annotations formatContent skips.                      *)
(***************************************************************************)
\* formatContent on the shorter inputs: every kind at every place of lists
\* of up to MaxEnt annotations
KindLists(text) ==
  LET room == MaxInput - 1 - Len(text)
      n    == IF room < 0 THEN 0 ELSE IF room \div 2 < MaxEnt THEN room \div 2 ELSE MaxEnt
  IN  SeqsUpTo(EntitiesOf(text), n)

KindsInit ==
  /\ content \in Texts
  /\ contentEntities \in KindLists(content)
  /\ fmtOut = NoContent
  /\ fmtPc = "call"
  /\ SvcInit

SpecKinds == KindsInit /\ [][FmtNext]_vars

\* the list without its annotations of other kinds
OnlySupported(es) == SelectSeq(es, IsSupported)

\* C18: annotations of a kind other than URL, TextLink, Bold and Italic
\* contribute nothing and do not move the cursor: the output of
\* formatContent is its output on the list with those annotations removed,
\* wherever they are in the list and whatever their ranges.
C18_OtherKindsIgnored ==
  fmtPc = "ret" => fmtOut = formatContent(content, OnlySupported(contentEntities))

\* C18, its case: an annotation of another kind comes before a supported
\* one that starts inside its range, and formatContent has returned
C18_Witness ==
  /\ fmtPc = "ret" /\ ~fmtOut.panic
  /\ Len(contentEntities) = 2
  /\ ~IsSupported(contentEntities[1]) /\ IsSupported(contentEntities[2])
  /\ contentEntities[2].Offset > contentEntities[1].Offset
  /\ contentEntities[2].Offset < contentEntities[1].Offset + contentEntities[1].Length
  /\ fmtOut.out # content

\* the acceptable outputs on any list: as RefOuts, an annotation that
\* starts before the end of the processed text being dropped
RECURSIVE RefOutsDropping(_, _, _)
RefOutsDropping(text, es, from) ==
  IF es = <<>> THEN {SubSeq(text, CpIndex(text, from) + 1, Len(text))}
  ELSE LET e == Head(es)
       IN  IF ~IsSupported(e) \/ e.Offset < from THEN RefOutsDropping(text, Tail(es), from)
           ELSE {SubSeq(text, CpIndex(text, from) + 1, CpIndex(text, e.Offset)) \o w \o r :
                   w \in WrapAny(e, SpanOf(text, e)),
                   r \in RefOutsDropping(text, Tail(es), e.Offset + e.Length)}

\* annotation i is of a supported kind, starts at or after the end of every
\* annotation before it, and its span is whitespace only
BlankSpanAt(text, es, i) ==
  /\ IsSupported(es[i])
  /\ AllSpace(SpanOf(text, es[i]))
  /\ \A j \in 1..(i - 1) : es[j].Offset + es[j].Length <= es[i].Offset

\* C19: a supported annotation whose span is whitespace only produces no
\* markup, and its whitespace is in the output once, at its place, whether
\* the annotation is the last one or further annotations follow: the output
\* is the gaps, the processed spans and the tail, the whitespace-only span
\* (WrapAny leaves it as it is) among them.
C19_BlankSpanVerbatim ==
  (fmtPc = "ret" /\ \E i \in 1..Len(contentEntities) : BlankSpanAt(content, contentEntities, i))
  => /\ ~fmtOut.panic
     /\ fmtOut.out \in RefOutsDropping(content, contentEntities, 0)

(***************************************************************************)
(* The claims on the callbacks.                                            *)
(***************************************************************************)
\* the data of a callback is not "<public|private|pin> <integer>"
Malformed(d) ==
  \/ Len(d) # 2
  \/ d[2] \notin Numerals
  \/ d[1] \notin {"public", "private", "pin"}

\* the callback answers sent with ShowAlert
Alerts ==
  {ReplyStartFirst, AnswerInvalidCommand, AnswerInvalidID, AnswerNotFound,
   AnswerUnknownAction, AnswerUpdateFailed}

\* the calls of the remote note API that change a note
StateChanging == {"create", "update", "share", "attach"}

\* C20: a callback whose data is malformed (not two space-separated parts,
\* a note id that is not an integer, an action other than public, private
\* or pin) is answered with an alert, and no state-changing call of the
\* remote note API is made for it.
C20_MalformedCallback ==
  \A h \in Handlers :
    (pc[h] = "done" /\ update[h].Kind = "callback" /\ Malformed(update[h].Data)) =>
       /\ sent[h] # {}
       /\ sent[h] \subseteq Alerts
       /\ \A i \in 1..Len(calls[h]) : calls[h][i].api \notin StateChanging

\* C20, its case: a callback with an unknown action on a note that exists
\* has been answered
C20_Witness ==
  /\ pc[1] = "done"
  /\ update[1].Kind = "callback"
  /\ update[1].Data = <<"zap", "1">>
  /\ sent[1] = {AnswerUnknownAction}
  /\ Len(calls[1]) = 1 /\ calls[1][1].ok

(***************************************************************************)
(* The claims on the file of a message.                                    *)
(***************************************************************************)
\* the calls of handler h to API `api`
CallsTo(h, api) == {i \in 1..Len(calls[h]) : calls[h][i].api = api}

\* the handling of h's message, which has a file, has ended with its note created
FileHandled(h) == pc[h] = "done" /\ update[h].File /\ ~err[h] /\ memo[h] # 0

TokenNotes ==
  {Note(u, <<ChLetter>>, <<>>, <<>>, <<>>, ForwardNone, NoGroup, f) :
     u \in {"u1", "u2"}, f \in BOOLEAN}

TokenStarts == {Command("u3", "start", t) : t \in StartTokens}

TokensNext ==
  \/ \E h \in Handlers, m \in TokenNotes : pc[h] = "idle" /\ HandleNote(h, m)
  \/ \E h \in Handlers, m \in TokenStarts : pc[h] = "idle" /\ HandleStart(h, m)
  \/ \E h \in Handlers : Lock(h)
  \/ \E h \in Handlers : Lookup(h)
  \/ \E h \in Handlers : CreateReturn(h)
  \/ \E h \in Handlers : Finish(h)

SpecTokens == Init /\ [][TokensNext]_vars

\* C22: under any interleaving of handlers of different senders, every
\* remote call made while handling an event of sender U (other than U's own
\* /start, which carries the token it supplies) carries the access token
\* registered for U.
C22_TokenOfSender ==
  \A h \in Handlers :
    update[h].Cmd # "start" =>
      \A i \in 1..Len(calls[h]) : calls[h][i].token = store[update[h].From]

(***************************************************************************)
(* The claim on the totality of formatContent.                             *)
(***************************************************************************)
\* C23: formatContent is total on well-formed input: for every text of
\* letters, spaces and line breaks and every list of annotations whose
\* ranges lie inside the text, the decomposition into leading whitespace,
\* core and trailing whitespace yields its three parts and the function
\* returns a string.
C23_FormatContentTotal ==
  fmtPc = "ret" => ~fmtOut.panic

(***************************************************************************)
(* The claim on /start and the access-token store.                         *)
(***************************************************************************)
\* this step is the handling of a /start command by handler h (the
\* handlers taking one update at a time)
StartStep(h) ==
  /\ pending' = pending - 1
  /\ update'[h].Cmd = "start"
  /\ pc'[h] = "done"
  /\ Len(calls'[h]) = 1 /\ calls'[h][1].api = "user_detail"

=============================================================================
